---- MODULE Spec2Model ----
(***************************************************************************)
(* Model of package_statistics.py: the contents-index parser               *)
(* (ContentIndice.parse_file), the top-K selector                          *)
(* (ContentIndice.get_top_packages) and the run of main() around them.     *)
(*                                                                         *)
(* Text is modelled character by character: a string is a sequence of      *)
(* one-character strings, a line of the index is such a sequence, and a    *)
(* package key or a file path is the sequence that the splitting code      *)
(* cuts out of a line.  The insertion-ordered dict parsed_content is a     *)
(* sequence of records [pkg, files] in insertion order.                    *)
(***************************************************************************)
EXTENDS Integers, Sequences, FiniteSets, TLC

VARIABLES
    caller,           \* "main": run of main(); "api": the class used directly
    pc,               \* position of the run
    content,          \* the downloaded file: [valid, lines]
    idx,              \* parse_file: number of lines consumed by the loop
    parsed_content,   \* self.parsed_content, in insertion order
    number,           \* get_top_packages: the argument
    i,                \* get_top_packages: loop variable of range(number)
    packages_list,    \* get_top_packages: auxiliary list
    occurrence_list,  \* get_top_packages: auxiliary list
    out,              \* ranked lines printed by the current call
    calls,            \* completed or running calls of get_top_packages
    prev_out,         \* ranked lines printed by the previous call
    prev_number,      \* the argument of the previous call
    exc,              \* the exception raised, "none" if none
    status            \* exit status of the process, -1 while it runs

vars == <<caller, pc, content, idx, parsed_content, number, i, packages_list,
          occurrence_list, out, calls, prev_out, prev_number, exc, status>>

----------------------------------------------------------------------------
(* Bounds of the model *)

MaxLines == 2

MaxTokens == 2

MaxK == 2

(* get_top_packages(10) in main *)
TOP_N == 10

----------------------------------------------------------------------------
(* Text: characters and the two splitting functions *)

NL == "\n"

Whitespace == {" ", NL, "\t"}

Comma == ","

RECURSIVE SkipSpace(_, _)
(* end of the run of whitespace that starts at position k *)
SkipSpace(s, k) ==
    IF k <= Len(s) /\ s[k] \in Whitespace THEN SkipSpace(s, k + 1) ELSE k

RECURSIVE ReSplitFrom(_, _, _)
ReSplitFrom(s, k, cur) ==
    IF k > Len(s) THEN <<cur>>
    ELSE IF s[k] \in Whitespace
         THEN <<cur>> \o ReSplitFrom(s, SkipSpace(s, k), <<>>)
         ELSE ReSplitFrom(s, k + 1, Append(cur, s[k]))

(* re.split(r"\s{1,}", line): the pieces between the maximal runs of
   whitespace, an empty piece before a leading and after a trailing run *)
ReSplit(line) == ReSplitFrom(line, 1, <<>>)

RECURSIVE StrSplitFrom(_, _, _)
StrSplitFrom(s, k, cur) ==
    IF k > Len(s) THEN <<cur>>
    ELSE IF s[k] = Comma
         THEN <<cur>> \o StrSplitFrom(s, k + 1, <<>>)
         ELSE StrSplitFrom(s, k + 1, Append(cur, s[k]))

(* parsed_line[1].split(","): every comma separates, "" gives [""] *)
StrSplit(s) == StrSplitFrom(s, 1, <<>>)

----------------------------------------------------------------------------
(* The aggregate *)

HasKey(d, package) == \E j \in 1..Len(d) : d[j].pkg = package

KeyIndex(d, package) == CHOOSE j \in 1..Len(d) : d[j].pkg = package

(* a mutant of AddPackages: only the first package of the line is recorded *)
AddFirstPackage(d, packages, packages_file) ==
    IF packages = <<>> THEN d
    ELSE IF HasKey(d, Head(packages))
         THEN [d EXCEPT ![KeyIndex(d, Head(packages))].files =
                            Append(@, packages_file)]
         ELSE Append(d, [pkg |-> Head(packages), files |-> <<packages_file>>])

(* a mutant of AddFile: an existing key keeps its list *)
AddFileNoAppend(d, package, packages_file) ==
    IF HasKey(d, package)
    THEN d
    ELSE Append(d, [pkg |-> package, files |-> <<packages_file>>])

(* lines 85-89: append the file name to the key's list, or create the key *)
AddFile(d, package, packages_file) ==
    IF HasKey(d, package)
    THEN [d EXCEPT ![KeyIndex(d, package)].files = Append(@, packages_file)]
    ELSE Append(d, [pkg |-> package, files |-> <<packages_file>>])

RECURSIVE AddPackages(_, _, _)
(* lines 83-89: the loop over the packages of one line *)
AddPackages(d, packages, packages_file) ==
    IF packages = <<>> THEN d
    ELSE AddPackages(AddFile(d, Head(packages), packages_file),
                     Tail(packages), packages_file)

----------------------------------------------------------------------------
(* The selector's helpers *)

(* a mutant of ListMax: the smallest element *)
ListMin(l) == CHOOSE m \in {l[j] : j \in 1..Len(l)} : \A j \in 1..Len(l) : l[j] >= m

(* max(occurrence_list), for a non-empty list *)
ListMax(l) == CHOOSE m \in {l[j] : j \in 1..Len(l)} : \A j \in 1..Len(l) : l[j] <= m

(* a mutant of ListIndex: the last position *)
ListLastIndex(l, x) ==
    CHOOSE j \in 1..Len(l) : l[j] = x /\ \A m \in (j+1)..Len(l) : l[m] # x

(* occurrence_list.index(x): the first position, 1-based here *)
ListIndex(l, x) ==
    CHOOSE j \in 1..Len(l) : l[j] = x /\ \A m \in 1..(j-1) : l[m] # x

(* a mutant of Pop: the last element is removed *)
PopLast(l, index) == SubSeq(l, 1, Len(l) - 1)

(* list.pop(index) *)
Pop(l, index) == SubSeq(l, 1, index - 1) \o SubSeq(l, index + 1, Len(l))

(* a mutant of SelfAfterPop: the entry is removed from the dict as well *)
SelfPopped(d, index) == Pop(d, index)

(* lines 113-114 pop the auxiliary lists only: self.parsed_content is not
   assigned anywhere in get_top_packages *)
SelfAfterPop(d, index) == d

----------------------------------------------------------------------------
(* Input: the lines of a contents index *)

PathChar == "f"

Pkgs == {"a", "b"}

RECURSIVE JoinComma(_)
JoinComma(toks) ==
    IF Len(toks) = 1 THEN <<toks[1]>>
    ELSE <<toks[1], Comma>> \o JoinComma(Tail(toks))

TokenLists == UNION {[1..n -> Pkgs] : n \in 1..MaxTokens}

(* <file_path><run of whitespace><package_list> *)
WellFormedBodies ==
    {<<PathChar, " ">> \o JoinComma(t) : t \in TokenLists}
    \cup {<<PathChar, " ", " ", "a">>}

(* a line with one field, and a blank line *)
MalformedBodies == {<<PathChar>>, <<>>}

Bodies == WellFormedBodies \cup MalformedBodies

(* file.readlines(): every line ends with a newline, the last one may not *)
Terminated(bodies, lastNL) ==
    [j \in 1..Len(bodies) |->
        IF j < Len(bodies) \/ lastNL THEN Append(bodies[j], NL) ELSE bodies[j]]

Streams ==
    {Terminated(b, nl) : b \in UNION {[1..n -> Bodies] : n \in 0..MaxLines},
                         nl \in BOOLEAN}

----------------------------------------------------------------------------
(* The run *)

Init ==
    /\ caller \in {"main", "api"}
    /\ pc = "get_file"
    /\ content = [valid |-> FALSE, lines |-> <<>>]
    /\ idx = 0
    /\ parsed_content = <<>>
    /\ number = 0
    /\ i = 0
    /\ packages_list = <<>>
    /\ occurrence_list = <<>>
    /\ out = <<>>
    /\ calls = 0
    /\ prev_out = <<>>
    /\ prev_number = 0
    /\ exc = "none"
    /\ status = -1

Raise(e) ==
    /\ pc' = "raised"
    /\ exc' = e

(* get_file, lines 59-69: the download succeeds and the file is written;
   its bytes are a gzip of some lines, or they are not a gzip at all *)
GetFile ==
    /\ pc = "get_file"
    /\ \/ \E s \in Streams : content' = [valid |-> TRUE, lines |-> s]
       \/ content' = [valid |-> FALSE, lines |-> <<>>]
    /\ pc' = "parse_file"
    /\ UNCHANGED <<caller, idx, parsed_content, number, i, packages_list,
                   occurrence_list, out, calls, prev_out, prev_number, exc,
                   status>>

(* get_file, line 67: requests raises (a RequestException is an IOError) *)
GetFileFails ==
    /\ pc = "get_file"
    /\ Raise("IOError")
    /\ UNCHANGED <<caller, content, idx, parsed_content, number, i,
                   packages_list, occurrence_list, out, calls, prev_out, prev_number,
                   status>>

(* parse_file, lines 76-77: gzip.open and readlines; BadGzipFile is an
   OSError, that is an IOError *)
ParseOpen ==
    /\ pc = "parse_file"
    /\ IF content.valid
       THEN pc' = "parse_loop" /\ exc' = exc
       ELSE Raise("IOError")
    /\ UNCHANGED <<caller, content, idx, parsed_content, number, i,
                   packages_list, occurrence_list, out, calls, prev_out, prev_number,
                   status>>

(* parse_file, lines 78-89: one iteration of the loop over the lines *)
ParseLine ==
    /\ pc = "parse_loop"
    /\ idx < Len(content.lines)
    /\ LET line == content.lines[idx + 1]
           parsed_line == ReSplit(line)
       IN  IF Len(parsed_line) < 2
           THEN /\ Raise("IndexError")
                /\ UNCHANGED <<idx, parsed_content>>
           ELSE /\ parsed_content' =
                       AddPackages(parsed_content, StrSplit(parsed_line[2]),
                                   parsed_line[1])
                /\ idx' = idx + 1
                /\ UNCHANGED <<pc, exc>>
    /\ UNCHANGED <<caller, content, number, i, packages_list,
                   occurrence_list, out, calls, prev_out, prev_number,
                   status>>

(* parse_file returns when the lines are exhausted *)
ParseReturn ==
    /\ pc = "parse_loop"
    /\ idx = Len(content.lines)
    /\ pc' = "parsed"
    /\ UNCHANGED <<caller, content, idx, parsed_content, number, i,
                   packages_list, occurrence_list, out, calls, prev_out, prev_number,
                   exc, status>>

(* get_top_packages, lines 97-102: the auxiliary lists are filled from the
   dict in its iteration order, which is its insertion order *)
StartTop(K) ==
    /\ number' = K
    /\ i' = 0
    /\ packages_list' = [j \in 1..Len(parsed_content) |-> parsed_content[j].pkg]
    /\ occurrence_list' =
           [j \in 1..Len(parsed_content) |-> Len(parsed_content[j].files)]
    /\ prev_out' = out
    /\ prev_number' = number
    /\ out' = <<>>
    /\ calls' = calls + 1
    /\ pc' = "top_loop"
    /\ UNCHANGED <<caller, content, idx, parsed_content, exc, status>>

(* main, line 128: content.get_top_packages(10) *)
MainTop ==
    /\ caller = "main"
    /\ pc = "parsed"
    /\ StartTop(TOP_N)

(* a direct user of the class calls get_top_packages(K) *)
ApiTop ==
    /\ caller = "api"
    /\ pc = "parsed"
    /\ \E K \in 0..MaxK : StartTop(K)

(* and calls it a second time when the first call has returned *)
ApiTopAgain ==
    /\ caller = "api"
    /\ pc = "returned"
    /\ calls = 1
    /\ \E K \in 0..MaxK : StartTop(K)

(* get_top_packages, lines 103-114: one iteration of range(number);
   max() of an empty list raises ValueError *)
TopStep ==
    /\ pc = "top_loop"
    /\ i < number
    /\ IF occurrence_list = <<>>
       THEN /\ Raise("ValueError")
            /\ UNCHANGED <<i, packages_list, occurrence_list, out,
                           parsed_content>>
       ELSE LET index == ListIndex(occurrence_list, ListMax(occurrence_list))
            IN  /\ out' = Append(out, [rank  |-> i + 1,
                                       pkg   |-> packages_list[index],
                                       count |-> occurrence_list[index]])
                /\ occurrence_list' = Pop(occurrence_list, index)
                /\ packages_list' = Pop(packages_list, index)
                /\ parsed_content' = SelfAfterPop(parsed_content, index)
                /\ i' = i + 1
                /\ UNCHANGED <<pc, exc>>
    /\ UNCHANGED <<caller, content, idx, number, calls, prev_out, prev_number,
                   status>>

(* get_top_packages returns when range(number) is exhausted; main then
   falls off its end and the process exits with status 0 *)
TopReturn ==
    /\ pc = "top_loop"
    /\ i = number
    /\ IF caller = "main"
       THEN pc' = "done" /\ status' = 0
       ELSE pc' = "returned" /\ status' = status
    /\ UNCHANGED <<caller, content, idx, parsed_content, number, i,
                   packages_list, occurrence_list, out, calls, prev_out,
                   prev_number, exc>>

(* main, lines 130-132: except (IOError, ValueError): print(err); sys.exit(1) *)
MainExcept ==
    /\ caller = "main"
    /\ pc = "raised"
    /\ exc \in {"IOError", "ValueError"}
    /\ pc' = "done"
    /\ status' = 1
    /\ UNCHANGED <<caller, content, idx, parsed_content, number, i,
                   packages_list, occurrence_list, out, calls, prev_out,
                   prev_number, exc>>

(* an IndexError is not caught by main: the interpreter prints the traceback
   and exits with status 1 *)
MainUncaught ==
    /\ caller = "main"
    /\ pc = "raised"
    /\ exc = "IndexError"
    /\ pc' = "done"
    /\ status' = 1
    /\ UNCHANGED <<caller, content, idx, parsed_content, number, i,
                   packages_list, occurrence_list, out, calls, prev_out,
                   prev_number, exc>>

Next ==
    \/ GetFile
    \/ GetFileFails
    \/ ParseOpen
    \/ ParseLine
    \/ ParseReturn
    \/ MainTop
    \/ ApiTop
    \/ ApiTopAgain
    \/ TopStep
    \/ TopReturn
    \/ MainExcept
    \/ MainUncaught

Spec == Init /\ [][Next]_vars

----------------------------------------------------------------------------
(* Vocabulary of the properties *)

lines == content.lines

N == Len(parsed_content)

Min(a, b) == IF a <= b THEN a ELSE b

RECURSIVE SumSeq(_)
SumSeq(l) == IF l = <<>> THEN 0 ELSE Head(l) + SumSeq(Tail(l))

(* sum over the keys of the number of files recorded *)
SumCounts == SumSeq([j \in 1..N |-> Len(parsed_content[j].files)])

(* positions where a whitespace-separated field starts *)
FieldStarts(line) ==
    {k \in 1..Len(line) :
        line[k] \notin Whitespace /\ (k = 1 \/ line[k - 1] \in Whitespace)}

(* <file_path><run of whitespace><package_list>, newline or not *)
WellFormed(line) ==
    /\ Cardinality(FieldStarts(line)) = 2
    /\ line[1] \notin Whitespace

(* a line that is not blank and has fewer than two fields *)
OneField(line) == Cardinality(FieldStarts(line)) = 1

(* comma-separated tokens of a well-formed line, counted on the text *)
CommaTokens(line) == 1 + Cardinality({k \in 1..Len(line) : line[k] = Comma})

ConsumedWellFormed == \A j \in 1..idx : WellFormed(lines[j])

(* the package tokens of a consumed line *)
TokensOf(line) == StrSplit(ReSplit(line)[2])

(* the token lists of the consumed lines *)
ConsumedTokens == [j \in 1..idx |-> TokensOf(lines[j])]

(* <<line, token>> positions of a key in the token lists toks *)
Positions(toks, key) ==
    UNION {{<<j, t>> : t \in {u \in 1..Len(toks[j]) : toks[j][u] = key}} :
              j \in 1..Len(toks)}

LinesNaming(toks, key) ==
    {j \in 1..Len(toks) : \E t \in 1..Len(toks[j]) : toks[j][t] = key}

Earlier(p, q) == p[1] < q[1] \/ (p[1] = q[1] /\ p[2] < q[2])

FirstPosition(toks, key) ==
    LET ps == Positions(toks, key)
    IN  CHOOSE p \in ps : \A q \in ps : p = q \/ Earlier(p, q)

(* a call of get_top_packages has ended, by a return or by an exception *)
CallReturned == pc = "returned" \/ (pc = "done" /\ status = 0)

CallEnded ==
    \/ CallReturned
    \/ (pc \in {"raised", "done"} /\ exc = "ValueError")

Emitted == {out[j].pkg : j \in 1..Len(out)}

----------------------------------------------------------------------------
(* C1: count conservation.  After every prefix of a stream of well-formed
   lines has been consumed by parse_file, the sum over the keys of the
   number of files recorded equals the sum over the consumed lines of the
   number of comma-separated tokens of the line. *)
C1_CountConservation ==
    ConsumedWellFormed =>
        SumCounts = SumSeq([j \in 1..idx |-> CommaTokens(lines[j])])

C1_Witness ==
    /\ pc = "parsed"
    /\ idx = 2
    /\ ConsumedWellFormed
    /\ SumCounts >= 3
    /\ \E j \in 1..N : Len(parsed_content[j].files) >= 2

(* C2 as claimed: the count of a key equals the number of distinct consumed
   lines whose token list contains the key, also when a line names the key
   more than once, and is at least 1. *)
C2_DistinctLines ==
    LET toks == ConsumedTokens
    IN  \A j \in 1..N :
            /\ Len(parsed_content[j].files) =
                   Cardinality(LinesNaming(toks, parsed_content[j].pkg))
            /\ Len(parsed_content[j].files) >= 1

(* C2 amended: the count of a key equals the number of occurrences of the
   key in the token lists of the consumed lines, a line that names the key
   n times counting n times, and is at least 1; it is the number of distinct
   lines for a key that no line names twice. *)
C2_Occurrences ==
    LET toks == ConsumedTokens
    IN  \A j \in 1..N :
            LET key == parsed_content[j].pkg
                count == Len(parsed_content[j].files)
                occurrences == Cardinality(Positions(toks, key))
                naming == Cardinality(LinesNaming(toks, key))
            IN  /\ count = occurrences
                /\ count >= 1
                /\ (occurrences = naming => count = naming)

C2_Witness ==
    /\ pc = "parsed"
    /\ \E j \in 1..N :
          /\ Len(parsed_content[j].files) = 3
          /\ Cardinality(LinesNaming(ConsumedTokens, parsed_content[j].pkg)) = 2

(* C3 as claimed: a call get_top_packages(K) on an aggregate of N packages
   returns normally and has emitted exactly min(K, N) entries. *)
C3_SelectorSize ==
    CallEnded => (exc = "none" /\ Len(out) = Min(number, N))

(* C4 as claimed: a line with fewer than two fields is fatal: the parser
   never gets past it, nothing derived from it enters the aggregate, no
   ranked line is printed and the run of main ends with a non-zero status. *)
C4_MalformedFatal ==
    \A j \in 1..Len(lines) :
        OneField(lines[j]) =>
            /\ idx < j
            /\ ~HasKey(parsed_content, <<>>)
            /\ out = <<>>
            /\ (pc = "done" => status # 0)

(* C5 as claimed: a run of main whose stream is retrieved and parsed without
   error ends with status 0; for the empty stream the aggregate is empty and
   no ranked line is printed. *)
C5_SuccessExit ==
    (caller = "main" /\ pc = "done" /\ exc \notin {"IOError", "IndexError"}) =>
        /\ status = 0
        /\ (lines = <<>> => (parsed_content = <<>> /\ out = <<>>))

(* C6 as claimed: a run of main that has ended either succeeded with the
   complete ranked list printed, or failed without any ranked line printed. *)
C6_NoPartialReport ==
    (caller = "main" /\ pc = "done") =>
        \/ (status = 0 /\ Len(out) = Min(number, N))
        \/ (status # 0 /\ out = <<>>)

(* C7: descending order.  In the entries emitted by get_top_packages each
   count is at least the count of the entry emitted next, and the i-th
   entry carries rank i. *)
C7_Descending ==
    /\ \A j \in 1..(Len(out) - 1) : out[j].count >= out[j + 1].count
    /\ \A j \in 1..Len(out) : out[j].rank = j

C7_Witness ==
    /\ Len(out) >= 2
    /\ out[1].count > out[2].count
    /\ out[2].rank = 2

(* C8: determinism and purity.  No step of get_top_packages changes
   parsed_content, and a second call with the same K on the same object
   ends with the same sequence of entries as the first, ties included. *)
C8_Determinism ==
    [][ /\ (pc = "top_loop" => parsed_content' = parsed_content)
        /\ ((calls' = 2 /\ CallEnded' /\ number' = prev_number')
                => out' = prev_out') ]_vars

C8_Witness ==
    /\ calls = 2
    /\ pc = "returned"
    /\ number = prev_number
    /\ Len(out) = 2
    /\ out[1].count = out[2].count
    /\ out = prev_out

(* C9: top-K correctness.  For K <= N the entries emitted by a call that has
   returned are K pairwise distinct keys of the aggregate, each with its
   exact count, and every emitted count is at least the count of every
   package that was not emitted. *)
C9_TopK ==
    (CallReturned /\ number <= N) =>
        /\ Len(out) = number
        /\ \A j, k \in 1..Len(out) : j # k => out[j].pkg # out[k].pkg
        /\ \A j \in 1..Len(out) :
              \E m \in 1..N : /\ parsed_content[m].pkg = out[j].pkg
                              /\ Len(parsed_content[m].files) = out[j].count
        /\ \A j \in 1..Len(out) : \A m \in 1..N :
              parsed_content[m].pkg \notin Emitted
                  => out[j].count >= Len(parsed_content[m].files)

C9_Witness ==
    /\ pc = "returned"
    /\ number = 1
    /\ N = 2
    /\ Len(out) = 1
    /\ \E m \in 1..N : /\ parsed_content[m].pkg \notin Emitted
                       /\ out[1].count > Len(parsed_content[m].files)

(* C10: ties are broken by first appearance.  Of two emitted packages with
   equal counts, the one whose key appeared first in the input stream
   (earlier line, or earlier token of the same line) is emitted first; the
   order is not the ascending lexicographic order of the keys. *)
C10_TieBreak ==
    LET toks == ConsumedTokens
    IN  \A j, k \in 1..Len(out) :
            (j < k /\ out[j].count = out[k].count)
                => Earlier(FirstPosition(toks, out[j].pkg),
                           FirstPosition(toks, out[k].pkg))

(* "b" is emitted before "a", with the same count *)
C10_Witness ==
    /\ Len(out) = 2
    /\ out[1].count = out[2].count
    /\ out[1].pkg = <<"b">>
    /\ out[2].pkg = <<"a">>

====
